---- MODULE Spec2Model ----
(***************************************************************************)
(* Model of ktx.Transaction (src/ktx.go).                                  *)
(*                                                                         *)
(* A call of Transaction is a record of `calls`; the call that is running  *)
(* is `cur`.  The callback fn, the caller and the database engine are the  *)
(* environment: the callback executes statements on the handle it was      *)
(* given, calls Transaction again, and ends by returning nil, returning    *)
(* an error or panicking; BeginTx, Commit and Rollback succeed or fail.    *)
(* `log` is the history of what each call invoked, in order.               *)
(*                                                                         *)
(* A panic value is never nil: since Go 1.21 panic(nil) reaches recover()  *)
(* as a *runtime.PanicNilError.  Commit and Rollback return; they do not   *)
(* panic.                                                                  *)
(***************************************************************************)
EXTENDS Integers, Sequences, FiniteSets, TLC

\* Bounds of the model.
MaxCalls == 2        \* calls of Transaction in one run (nesting depth too)
MaxStmts == 1        \* statements one callback executes

VARIABLES calls, cur, txs, store, log, ctxDone

vars == <<calls, cur, txs, store, log, ctxDone>>

NoTx == -1
CallerTx == 0        \* a transaction the top-level caller opened itself

----------------------------------------------------------------------------
\* Values: nil, errors and panic payloads.  `text` is what Error() or %v
\* prints, `cause` what Unwrap() returns (empty when there is none).

Nil == [kind |-> "nil", text |-> <<>>, cause |-> <<>>]

NewError(s) == [kind |-> "error", text |-> <<s>>, cause |-> <<>>]

StringValue(s) == [kind |-> "string", text |-> <<s>>, cause |-> <<>>]

\* errors.Is: target is reachable in the cause chain of err.
RECURSIVE Is(_, _)
Is(err, target) ==
    \/ err = target
    \/ /\ err.cause # <<>>
       /\ Is(err.cause[1], target)

\* fmt.Errorf("provided db does not implement TxBeginner interface")
ErrNotTxBeginner ==
    NewError("provided db does not implement TxBeginner interface")

\* fmt.Errorf("error starting transaction: %w", err)
ErrStartingTransaction_NoWrapMut(err) ==
    [kind |-> "error",
     text |-> <<"error starting transaction: ">> \o err.text,
     cause |-> <<>>]

ErrStartingTransaction(err) ==
    [kind |-> "error",
     text |-> <<"error starting transaction: ">> \o err.text,
     cause |-> <<err>>]

\* fmt.Errorf("unable to rollback after error: %s, rollback error: %w", err, rollbackErr)
ErrRollbackAfterError_OnlyRollbackMut(err, rollbackErr) == rollbackErr

ErrRollbackAfterError(err, rollbackErr) ==
    [kind |-> "error",
     text |-> <<"unable to rollback after error: ">> \o err.text
              \o <<", rollback error: ">> \o rollbackErr.text,
     cause |-> <<rollbackErr>>]

\* fmt.Errorf("unable to rollback after panic with value: %v, rollback error: %w", r, rollbackErr)
ErrRollbackAfterPanic(r, rollbackErr) ==
    [kind |-> "error",
     text |-> <<"unable to rollback after panic with value: ">> \o r.text
              \o <<", rollback error: ">> \o rollbackErr.text,
     cause |-> <<rollbackErr>>]

\* What the environment can produce.
FnErrors == {NewError("test error"), NewError("UNIQUE constraint failed")}
PanicValues == {StringValue("test panic")}
BeginResults == {Nil, NewError("begin failed")}
CommitResults == {Nil, NewError("commit failed")}
RollbackResults == {Nil, NewError("rollback failed")}

----------------------------------------------------------------------------
\* Runners: the dynamic type of the db argument.

SqlTx(t) == [kind |-> "*sql.Tx", tx |-> t]
SqlDB == [kind |-> "TxBeginner", tx |-> NoTx]
PlainRunner == [kind |-> "DBRunner", tx |-> NoTx]
CustomTx == [kind |-> "Tx", tx |-> NoTx]

\* The runners a caller holding the open transaction t can pass.
Runners(t) == {SqlTx(t), SqlDB, PlainRunner, CustomTx}

\* tx, ok := db.(*sql.Tx)
IsSqlTx_NeverMut(db) == FALSE

IsSqlTx_AnyTxMut(db) == db.kind \in {"*sql.Tx", "Tx"}

IsSqlTx(db) == db.kind = "*sql.Tx"

\* txBeginner, ok := db.(TxBeginner)
IsTxBeginner_AllMut(db) == TRUE

IsTxBeginner(db) == db.kind = "TxBeginner"

\* The method set of the runner has BeginTx.
HasBeginTx(db) == db.kind = "TxBeginner"

----------------------------------------------------------------------------
\* Outcomes of a callback or of a call of Transaction.

NoOutcome == [how |-> "none", val |-> Nil]
Returned(v) == [how |-> "return", val |-> v]
Panicked(v) == [how |-> "panic", val |-> v]

Ev(op, c, res) == [op |-> op, call |-> c, res |-> res]

NewCall(db, parent) ==
    [db |-> db, parent |-> parent, pc |-> "start", began |-> FALSE,
     handle |-> NoTx, stmts |-> {},
     fnOut |-> NoOutcome, out |-> NoOutcome]

NewTx == [state |-> "unused", pending |-> {}]

Init ==
    /\ calls = <<>>
    /\ cur = 0
    /\ txs = [t \in 0..MaxCalls |->
                IF t = CallerTx THEN [state |-> "open", pending |-> {}]
                ELSE NewTx]
    /\ store = {}
    /\ log = <<>>
    /\ ctxDone = FALSE

----------------------------------------------------------------------------
\* History helpers.

CountIn(l, op, c) == Cardinality({i \in DOMAIN l : l[i].op = op /\ l[i].call = c})

Count(op, c) == CountIn(log, op, c)

\* Position of the (first) event op of call c in the history, 0 when absent.
Pos(op, c) ==
    LET S == {i \in DOMAIN log : log[i].op = op /\ log[i].call = c}
    IN IF S = {} THEN 0 ELSE CHOOSE i \in S : \A j \in S : i <= j

\* The call returns or panics: control goes back to whoever called it.
Leave(c, out, events) ==
    /\ calls' = [calls EXCEPT ![c].pc = "done", ![c].out = out]
    /\ cur' = calls[c].parent
    /\ log' = log \o events \o <<Ev("leave", c, out.val)>>

----------------------------------------------------------------------------
\* The database engine behind a *sql.Tx.

\* tx.Commit(): on success the statements of the transaction become visible.
EngineCommit(tx, res) ==
    IF res = Nil THEN [state |-> "committed", pending |-> {}]
    ELSE [state |-> "broken", pending |-> tx.pending]

\* tx.Rollback(): on success the statements of the transaction are discarded.
EngineRollback(tx, res) ==
    IF res = Nil THEN [state |-> "rolledback", pending |-> {}]
    ELSE [state |-> "broken", pending |-> tx.pending]

----------------------------------------------------------------------------
\* The caller of the outermost call.

CallerInvokes(db) ==
    /\ calls = <<>>
    /\ calls' = <<NewCall(db, 0)>>
    /\ cur' = 1
    /\ log' = Append(log, Ev("call", 1, Nil))
    /\ UNCHANGED <<txs, store, ctxDone>>

\* The context is cancelled while a callback is running.  (Transaction
\* hands ctx to BeginTx and never reads it.)
Cancel ==
    /\ ~ctxDone
    /\ cur # 0
    /\ calls[cur].pc = "infn"
    /\ ctxDone' = TRUE
    /\ UNCHANGED <<calls, cur, txs, store, log>>

----------------------------------------------------------------------------
\* Transaction, from its entry to the invocation of fn.

\* if tx, ok := db.(*sql.Tx); ok { return fn(tx) }  -- the invocation
ReuseTx(c) ==
    /\ cur = c
    /\ calls[c].pc = "start"
    /\ IsSqlTx(calls[c].db)
    /\ calls' = [calls EXCEPT ![c].pc = "infn", ![c].handle = calls[c].db.tx]
    /\ log' = Append(log, Ev("fn", c, Nil))
    /\ UNCHANGED <<cur, txs, store, ctxDone>>

\* if !ok { return fmt.Errorf("provided db does not implement ...") }
RejectRunner(c) ==
    /\ cur = c
    /\ calls[c].pc = "start"
    /\ ~IsSqlTx(calls[c].db)
    /\ ~IsTxBeginner(calls[c].db)
    /\ Leave(c, Returned(ErrNotTxBeginner), <<>>)
    /\ UNCHANGED <<txs, store, ctxDone>>

\* tx, err := txBeginner.BeginTx(ctx, nil); on error return the wrapped
\* error, otherwise install the deferred recover and invoke fn(tx).
BeginFailed(c, err) ==
    /\ Leave(c, Returned(ErrStartingTransaction(err)), <<Ev("BeginTx", c, err)>>)
    /\ UNCHANGED txs

BeginTx(c) ==
    /\ cur = c
    /\ calls[c].pc = "start"
    /\ ~IsSqlTx(calls[c].db)
    /\ IsTxBeginner(calls[c].db)
    /\ \E err \in BeginResults :
         IF err # Nil
         THEN BeginFailed(c, err)
         ELSE /\ calls' = [calls EXCEPT ![c].pc = "infn", ![c].began = TRUE,
                                        ![c].handle = c]
              /\ txs' = [txs EXCEPT ![c] = [state |-> "open", pending |-> {}]]
              /\ log' = log \o <<Ev("BeginTx", c, Nil), Ev("fn", c, Nil)>>
              /\ cur' = cur
    /\ UNCHANGED <<store, ctxDone>>

----------------------------------------------------------------------------
\* The callback fn, running with the handle it was given.

\* tx.ExecContext(ctx, "INSERT ..."): the k-th statement of call c inserts
\* the row <<c, k>> in the transaction of its handle.  (A statement that
\* fails changes nothing; the callback then ends as it chooses.)
FnExec(c) ==
    /\ cur = c
    /\ calls[c].pc = "infn"
    /\ Cardinality(calls[c].stmts) < MaxStmts
    /\ txs[calls[c].handle].state = "open"
    /\ LET h == calls[c].handle
           row == <<c, Cardinality(calls[c].stmts) + 1>>
       IN /\ txs' = [txs EXCEPT ![h].pending = @ \cup {row}]
          /\ calls' = [calls EXCEPT ![c].stmts = @ \cup {row}]
    /\ UNCHANGED <<cur, store, log, ctxDone>>

\* The callback calls Transaction itself, with the handle it was given or
\* with another runner.
FnCallsTransaction(c, db) ==
    /\ cur = c
    /\ calls[c].pc = "infn"
    /\ Len(calls) < MaxCalls
    /\ db \in Runners(calls[c].handle)
    /\ calls' = Append(calls, NewCall(db, c))
    /\ cur' = Len(calls) + 1
    /\ log' = Append(log, Ev("call", Len(calls) + 1, Nil))
    /\ UNCHANGED <<txs, store, ctxDone>>

\* The callback ends: return nil, return an error, or panic.
FnEnds(c, outcome) ==
    /\ cur = c
    /\ calls[c].pc = "infn"
    /\ calls' = [calls EXCEPT ![c].pc = "fnEnded", ![c].fnOut = outcome]
    /\ log' = Append(log, Ev("fnEnd", c, outcome.val))
    /\ UNCHANGED <<cur, txs, store, ctxDone>>

FnOutcomes ==
    {Returned(Nil)} \cup {Returned(e) : e \in FnErrors}
                    \cup {Panicked(v) : v \in PanicValues}

----------------------------------------------------------------------------
\* Transaction, after fn has ended.

\* return fn(tx) for a reused transaction: the result of fn, a panic
\* included, goes to the caller as it is.
ReturnFnResult_RollbackMut(c) ==
    /\ cur = c
    /\ calls[c].pc = "fnEnded"
    /\ ~calls[c].began
    /\ IF calls[c].fnOut = Returned(Nil)
       THEN /\ Leave(c, calls[c].fnOut, <<>>)
            /\ txs' = txs
       ELSE /\ Leave(c, calls[c].fnOut, <<Ev("Rollback", c, Nil)>>)
            /\ txs' = [txs EXCEPT ![calls[c].handle] = EngineRollback(@, Nil)]
    /\ UNCHANGED <<store, ctxDone>>

ReturnFnResult(c) ==
    /\ cur = c
    /\ calls[c].pc = "fnEnded"
    /\ ~calls[c].began
    /\ Leave(c, calls[c].fnOut, <<>>)
    /\ UNCHANGED <<txs, store, ctxDone>>

\* Which of the three paths runs once fn(tx) has ended: the deferred
\* recover (r != nil), the error path (err != nil) or the commit.
AfterFn_CommitOnErrorMut(fnOut) ==
    IF fnOut.how = "panic" THEN "recover" ELSE "commit"

AfterFn_RollbackOnNilMut(fnOut) ==
    IF fnOut.how = "panic" THEN "recover" ELSE "rollback"

AfterFn_RollbackIfCancelledMut(fnOut) ==
    IF fnOut.how = "panic" THEN "recover"
    ELSE IF fnOut.val # Nil \/ ctxDone THEN "rollback"
    ELSE "commit"

AfterFn(fnOut) ==
    IF fnOut.how = "panic" THEN "recover"
    ELSE IF fnOut.val # Nil THEN "rollback"
    ELSE "commit"

\* if rollbackErr != nil { err = fmt.Errorf(...) }; return err
ErrorResult_AlwaysWrapMut(err, rollbackErr) ==
    ErrRollbackAfterError(err, IF rollbackErr = Nil THEN NewError("") ELSE rollbackErr)

ErrorResult(err, rollbackErr) ==
    IF rollbackErr # Nil THEN ErrRollbackAfterError(err, rollbackErr) ELSE err

\* if rollbackErr != nil { r = fmt.Errorf(...) }; panic(r)
PanicResult_DropRollbackMut(r, rollbackErr) == r

PanicResult(r, rollbackErr) ==
    IF rollbackErr # Nil THEN ErrRollbackAfterPanic(r, rollbackErr) ELSE r

\* err = fn(tx); if err != nil { rollbackErr := tx.Rollback(); ...; return err }
RollbackOnError_RetryMut(c) ==
    /\ cur = c
    /\ calls[c].pc = "fnEnded"
    /\ calls[c].began
    /\ AfterFn(calls[c].fnOut) = "rollback"
    /\ \E rollbackErr \in RollbackResults :
         /\ txs' = [txs EXCEPT ![c] = EngineRollback(@, rollbackErr)]
         /\ Leave(c, Returned(ErrorResult(calls[c].fnOut.val, rollbackErr)),
                  IF rollbackErr = Nil THEN <<Ev("Rollback", c, rollbackErr)>>
                  ELSE <<Ev("Rollback", c, rollbackErr),
                         Ev("Rollback", c, rollbackErr)>>)
    /\ UNCHANGED <<store, ctxDone>>

RollbackOnError(c) ==
    /\ cur = c
    /\ calls[c].pc = "fnEnded"
    /\ calls[c].began
    /\ AfterFn(calls[c].fnOut) = "rollback"
    /\ \E rollbackErr \in RollbackResults :
         /\ txs' = [txs EXCEPT ![c] = EngineRollback(@, rollbackErr)]
         /\ Leave(c, Returned(ErrorResult(calls[c].fnOut.val, rollbackErr)),
                  <<Ev("Rollback", c, rollbackErr)>>)
    /\ UNCHANGED <<store, ctxDone>>

\* return tx.Commit()
Commit_ThenRollbackMut(c) ==
    /\ cur = c
    /\ calls[c].pc = "fnEnded"
    /\ calls[c].began
    /\ AfterFn(calls[c].fnOut) = "commit"
    /\ \E err \in CommitResults :
         /\ txs' = [txs EXCEPT ![c] = EngineCommit(@, err)]
         /\ store' = IF err = Nil THEN store \cup txs[c].pending ELSE store
         /\ Leave(c, Returned(err),
                  IF err = Nil THEN <<Ev("Commit", c, err)>>
                  ELSE <<Ev("Commit", c, err), Ev("Rollback", c, Nil)>>)
    /\ UNCHANGED ctxDone

Commit(c) ==
    /\ cur = c
    /\ calls[c].pc = "fnEnded"
    /\ calls[c].began
    /\ AfterFn(calls[c].fnOut) = "commit"
    /\ \E err \in CommitResults :
         /\ txs' = [txs EXCEPT ![c] = EngineCommit(@, err)]
         /\ store' = IF err = Nil THEN store \cup txs[c].pending ELSE store
         /\ Leave(c, Returned(err), <<Ev("Commit", c, err)>>)
    /\ UNCHANGED ctxDone

\* defer func() { if r := recover(); r != nil { tx.Rollback(); ...; panic(r) } }()
RecoverAndRollback_ReturnMut(c) ==
    /\ cur = c
    /\ calls[c].pc = "fnEnded"
    /\ calls[c].began
    /\ AfterFn(calls[c].fnOut) = "recover"
    /\ \E rollbackErr \in RollbackResults :
         /\ txs' = [txs EXCEPT ![c] = EngineRollback(@, rollbackErr)]
         /\ Leave(c, Returned(PanicResult(calls[c].fnOut.val, rollbackErr)),
                  <<Ev("Rollback", c, rollbackErr)>>)
    /\ UNCHANGED <<store, ctxDone>>

RecoverAndRollback_NoRollbackMut(c) ==
    /\ cur = c
    /\ calls[c].pc = "fnEnded"
    /\ calls[c].began
    /\ AfterFn(calls[c].fnOut) = "recover"
    /\ Leave(c, Panicked(calls[c].fnOut.val), <<>>)
    /\ UNCHANGED <<txs, store, ctxDone>>

RecoverAndRollback(c) ==
    /\ cur = c
    /\ calls[c].pc = "fnEnded"
    /\ calls[c].began
    /\ AfterFn(calls[c].fnOut) = "recover"
    /\ \E rollbackErr \in RollbackResults :
         /\ txs' = [txs EXCEPT ![c] = EngineRollback(@, rollbackErr)]
         /\ Leave(c, Panicked(PanicResult(calls[c].fnOut.val, rollbackErr)),
                  <<Ev("Rollback", c, rollbackErr)>>)
    /\ UNCHANGED <<store, ctxDone>>

Next ==
    \/ \E db \in Runners(CallerTx) : CallerInvokes(db)
    \/ Cancel
    \/ \E c \in DOMAIN calls : ReuseTx(c)
    \/ \E c \in DOMAIN calls : RejectRunner(c)
    \/ \E c \in DOMAIN calls : BeginTx(c)
    \/ \E c \in DOMAIN calls : FnExec(c)
    \/ \E c \in DOMAIN calls : \E db \in Runners(calls[c].handle) : FnCallsTransaction(c, db)
    \/ \E c \in DOMAIN calls : \E outcome \in FnOutcomes : FnEnds(c, outcome)
    \/ \E c \in DOMAIN calls : ReturnFnResult(c)
    \/ \E c \in DOMAIN calls : RollbackOnError(c)
    \/ \E c \in DOMAIN calls : Commit(c)
    \/ \E c \in DOMAIN calls : RecoverAndRollback(c)

Spec == Init /\ [][Next]_vars

----------------------------------------------------------------------------
\* Properties.

\* The result of the (first) event op of call c.
Res(op, c) == log[Pos(op, c)].res

\* The calls that run on the transaction call c began: c passed its handle
\* down, at any depth.
Tree(c) == {d \in DOMAIN calls : calls[d].db = SqlTx(c)}

FnReturnedError(c) == calls[c].fnOut.how = "return" /\ calls[c].fnOut.val # Nil

\* C1: a call that began its transaction and whose callback returned a
\* non-nil error invokes Rollback exactly once and Commit never, and when
\* Rollback succeeded it returns the very error of the callback.
C1_RollbackOnError ==
    \A c \in DOMAIN calls :
        (calls[c].began /\ FnReturnedError(c)) =>
            /\ Count("Commit", c) = 0
            /\ Count("Rollback", c) <= 1
            /\ calls[c].pc = "done" =>
                 /\ Count("Rollback", c) = 1
                 /\ Res("Rollback", c) = Nil =>
                      calls[c].out = Returned(calls[c].fnOut.val)

C1_Witness ==
    \E c \in DOMAIN calls :
        /\ calls[c].began /\ FnReturnedError(c) /\ calls[c].pc = "done"
        /\ Count("Rollback", c) = 1 /\ Res("Rollback", c) = Nil

\* C2: a call that began its transaction and whose callback returned nil
\* invokes Commit exactly once, after the callback returned, never
\* Rollback, and returns what Commit returned, nil or the commit error.
C2_CommitOnSuccess ==
    \A c \in DOMAIN calls :
        (calls[c].began /\ calls[c].fnOut = Returned(Nil)) =>
            /\ Count("Rollback", c) = 0
            /\ Count("Commit", c) <= 1
            /\ Count("Commit", c) = 1 => Pos("fnEnd", c) < Pos("Commit", c)
            /\ calls[c].pc = "done" =>
                 /\ Count("Commit", c) = 1
                 /\ calls[c].out = Returned(Res("Commit", c))

C2_Witness ==
    /\ \E c \in DOMAIN calls :
        /\ calls[c].began /\ calls[c].fnOut = Returned(Nil)
        /\ calls[c].pc = "done" /\ Res("Commit", c) = Nil
    /\ \E c \in DOMAIN calls :
        /\ calls[c].began /\ calls[c].fnOut = Returned(Nil)
        /\ calls[c].pc = "done" /\ Res("Commit", c) # Nil

\* C3: a call that began its transaction and whose callback panicked
\* invokes Rollback exactly once and Commit never, and ends by panicking,
\* with the original panic value when Rollback succeeded.
C3_RollbackOnPanic ==
    \A c \in DOMAIN calls :
        (calls[c].began /\ calls[c].fnOut.how = "panic") =>
            /\ Count("Commit", c) = 0
            /\ Count("Rollback", c) <= 1
            /\ calls[c].pc = "done" =>
                 /\ Count("Rollback", c) = 1
                 /\ calls[c].out.how = "panic"
                 /\ Res("Rollback", c) = Nil => calls[c].out.val = calls[c].fnOut.val

C3_Witness ==
    \E c \in DOMAIN calls :
        /\ calls[c].began /\ calls[c].fnOut.how = "panic" /\ calls[c].pc = "done"
        /\ Count("Rollback", c) = 1 /\ Res("Rollback", c) = Nil

\* C4: no call invokes both Commit and Rollback on the transaction it began.
C4_NeverCommitAndRollback ==
    \A c \in DOMAIN calls :
        ~(Count("Commit", c) > 0 /\ Count("Rollback", c) > 0)

C4_Witness ==
    \E c \in DOMAIN calls :
        /\ calls[c].began /\ calls[c].pc = "done"
        /\ Count("Commit", c) = 1 /\ Res("Commit", c) # Nil

\* C5: when a call whose runner is an open *sql.Tx leaves, it has invoked
\* fn exactly once with that handle, its result is the result of fn (a
\* panic included), it has invoked no BeginTx, Commit or Rollback, and the
\* transaction is open, with its statements untouched.
C5_ReusedTxUntouched ==
    [][\A c \in DOMAIN calls :
          (calls[c].db.kind = "*sql.Tx" /\ calls[c].pc # "done"
                                        /\ calls'[c].pc = "done") =>
              /\ CountIn(log', "fn", c) = 1
              /\ calls'[c].handle = calls[c].db.tx
              /\ calls'[c].fnOut.how # "none"
              /\ calls'[c].out = calls'[c].fnOut
              /\ CountIn(log', "BeginTx", c) = 0
              /\ CountIn(log', "Commit", c) = 0
              /\ CountIn(log', "Rollback", c) = 0
              /\ txs'[calls[c].db.tx].state = "open"
              /\ txs'[calls[c].db.tx].pending = txs[calls[c].db.tx].pending]_vars

C5_Witness ==
    /\ \E c \in DOMAIN calls :
        /\ calls[c].db.kind = "*sql.Tx" /\ calls[c].pc = "done"
        /\ FnReturnedError(c) /\ calls[c].stmts # {}
    /\ \E c \in DOMAIN calls :
        /\ calls[c].db.kind = "*sql.Tx" /\ calls[c].pc = "done"
        /\ calls[c].fnOut.how = "panic"

\* C6: on the transaction a call began, that call invokes exactly one
\* BeginTx and exactly one of Commit or Rollback, the nested calls that were
\* passed the handle invoke none, the Commit or Rollback comes after every
\* nested call has left, and it is a Commit exactly when the outermost
\* callback returned nil, whatever the nested calls returned.
C6_OutermostDecides ==
    \A c \in DOMAIN calls :
        calls[c].began =>
            LET ends == Count("Commit", c) + Count("Rollback", c)
                endPos == IF Count("Commit", c) > 0 THEN Pos("Commit", c)
                          ELSE Pos("Rollback", c)
            IN /\ Count("BeginTx", c) = 1
               /\ \A d \in Tree(c) :
                     /\ Count("BeginTx", d) = 0
                     /\ Count("Commit", d) = 0
                     /\ Count("Rollback", d) = 0
               /\ ends <= 1
               /\ ends = 1 =>
                     \A d \in Tree(c) :
                         /\ calls[d].pc = "done"
                         /\ Pos("leave", d) < endPos
               /\ calls[c].pc = "done" =>
                     /\ ends = 1
                     /\ Count("Commit", c) = 1 <=> calls[c].fnOut = Returned(Nil)

C6_Witness ==
    \E c \in DOMAIN calls :
        /\ calls[c].began /\ calls[c].pc = "done"
        /\ Count("Commit", c) = 1
        /\ \E d \in Tree(c) : calls[d].out.val # Nil

\* Rollback, where a call invoked it, succeeded.
RollbackOk(c) == Count("Rollback", c) > 0 => Res("Rollback", c) = Nil

\* The statements executed on the transaction call c began: those of its
\* callback and those of the nested calls that were passed the handle.
StmtsOn(c) == calls[c].stmts \cup UNION {calls[d].stmts : d \in Tree(c)}

\* C7, as stated: after any call whose callback returned an error has
\* returned, none of the statements of its callback is visible in the
\* store (Rollback, where invoked, having succeeded).
C7_Original ==
    \A c \in DOMAIN calls :
        (calls[c].pc = "done" /\ FnReturnedError(c) /\ RollbackOk(c)) =>
            calls[c].stmts \cap store = {}

\* C7, amended: after a non-nested call (one that began the transaction)
\* whose callback returned an error has returned, Rollback having
\* succeeded, the transaction is rolled back and none of the statements
\* executed on it is visible in the store.
C7_RolledBackInvisible ==
    \A c \in DOMAIN calls :
        (calls[c].began /\ calls[c].pc = "done" /\ FnReturnedError(c)
                        /\ RollbackOk(c)) =>
            /\ txs[c].state = "rolledback"
            /\ StmtsOn(c) \cap store = {}

C7_Witness ==
    \E c \in DOMAIN calls :
        /\ calls[c].began /\ calls[c].pc = "done" /\ FnReturnedError(c)
        /\ RollbackOk(c)
        /\ calls[c].stmts # {}

\* C8, as stated: when any call whose callback returned nil has itself
\* returned nil, all the statements of its callback are committed.
C8_Original ==
    \A c \in DOMAIN calls :
        (calls[c].pc = "done" /\ calls[c].fnOut = Returned(Nil)
                              /\ calls[c].out = Returned(Nil)) =>
            calls[c].stmts \subseteq store

\* C8, amended: when a non-nested call (one that began the transaction)
\* whose callback returned nil has itself returned nil, the transaction is
\* committed and all the statements executed on it are in the store.
C8_CommittedVisible ==
    \A c \in DOMAIN calls :
        (calls[c].began /\ calls[c].pc = "done"
                        /\ calls[c].fnOut = Returned(Nil)
                        /\ calls[c].out = Returned(Nil)) =>
            /\ txs[c].state = "committed"
            /\ StmtsOn(c) \subseteq store

C8_Witness ==
    \E c \in DOMAIN calls :
        /\ calls[c].began /\ calls[c].pc = "done"
        /\ calls[c].fnOut = Returned(Nil) /\ calls[c].out = Returned(Nil)
        /\ calls[c].stmts # {}

\* C9, as stated: for every runner without a BeginTx method the call
\* returns the "does not implement TxBeginner" error and never invokes fn.
C9_Original ==
    \A c \in DOMAIN calls :
        ~HasBeginTx(calls[c].db) =>
            /\ Count("fn", c) = 0
            /\ calls[c].pc = "done" => calls[c].out = Returned(ErrNotTxBeginner)

\* C9, amended: for every runner that is not an open *sql.Tx and has no
\* BeginTx method the call returns the "does not implement TxBeginner"
\* error and never invokes fn (nor BeginTx, Commit or Rollback).
C9_RejectsNonBeginner ==
    \A c \in DOMAIN calls :
        (calls[c].db.kind # "*sql.Tx" /\ ~HasBeginTx(calls[c].db)) =>
            /\ Count("fn", c) = 0
            /\ Count("BeginTx", c) = 0
            /\ Count("Commit", c) = 0
            /\ Count("Rollback", c) = 0
            /\ calls[c].pc = "done" => calls[c].out = Returned(ErrNotTxBeginner)

C9_Witness ==
    \E c \in DOMAIN calls :
        /\ calls[c].db = PlainRunner /\ calls[c].pc = "done"
        /\ calls[c].parent # 0 /\ calls[calls[c].parent].pc = "done"

\* C10: when BeginTx returned an error the call has left at once, returning
\* an error that wraps the begin error, without invoking fn, Commit or
\* Rollback.
C10_BeginErrorWrapped ==
    \A c \in DOMAIN calls :
        (Count("BeginTx", c) > 0 /\ Res("BeginTx", c) # Nil) =>
            /\ Count("BeginTx", c) = 1
            /\ calls[c].pc = "done"
            /\ log[Pos("BeginTx", c) + 1] = Ev("leave", c, calls[c].out.val)
            /\ calls[c].out.how = "return"
            /\ calls[c].out.val # Res("BeginTx", c)
            /\ Is(calls[c].out.val, Res("BeginTx", c))
            /\ Count("fn", c) = 0
            /\ Count("Commit", c) = 0
            /\ Count("Rollback", c) = 0

C10_Witness ==
    \E c \in DOMAIN calls :
        /\ Count("BeginTx", c) = 1 /\ Res("BeginTx", c) # Nil
        /\ calls[c].pc = "done"

\* The message of v contains the message of w (w is named by v).
Mentions(v, w) ==
    /\ w.text # <<>>
    /\ \E i \in 1..Len(v.text) :
          /\ i + Len(w.text) - 1 <= Len(v.text)
          /\ SubSeq(v.text, i, i + Len(w.text) - 1) = w.text

RollbackFailed(c) == Count("Rollback", c) > 0 /\ Res("Rollback", c) # Nil

\* C11: when the callback returned an error and Rollback failed, the call
\* returns (it does not panic), without Commit, one error that is neither
\* of the two alone: its message names the callback's error and the
\* rollback error, and the rollback error is in its cause chain.
C11_CombinedErrorOnRollbackFailure ==
    \A c \in DOMAIN calls :
        (calls[c].began /\ FnReturnedError(c) /\ RollbackFailed(c)) =>
            /\ calls[c].pc = "done"
            /\ calls[c].out.how = "return"
            /\ Count("Commit", c) = 0
            /\ calls[c].out.val \notin {Nil, calls[c].fnOut.val, Res("Rollback", c)}
            /\ Mentions(calls[c].out.val, calls[c].fnOut.val)
            /\ Mentions(calls[c].out.val, Res("Rollback", c))
            /\ Is(calls[c].out.val, Res("Rollback", c))

C11_Witness ==
    \E c \in DOMAIN calls :
        /\ calls[c].began /\ FnReturnedError(c) /\ RollbackFailed(c)
        /\ calls[c].pc = "done"

\* C12: when the callback panicked and Rollback failed, the call ends by
\* panicking, and the panic value is one error whose message names the
\* original panic value and the rollback error, with the rollback error in
\* its cause chain.
C12_CombinedPanicOnRollbackFailure ==
    \A c \in DOMAIN calls :
        (calls[c].began /\ calls[c].fnOut.how = "panic" /\ RollbackFailed(c)) =>
            /\ calls[c].pc = "done"
            /\ calls[c].out.how = "panic"
            /\ calls[c].out.val.kind = "error"
            /\ calls[c].out.val \notin {calls[c].fnOut.val, Res("Rollback", c)}
            /\ Mentions(calls[c].out.val, calls[c].fnOut.val)
            /\ Mentions(calls[c].out.val, Res("Rollback", c))
            /\ Is(calls[c].out.val, Res("Rollback", c))

C12_Witness ==
    \E c \in DOMAIN calls :
        /\ calls[c].began /\ calls[c].fnOut.how = "panic" /\ RollbackFailed(c)
        /\ calls[c].pc = "done"

\* The lifecycle operations call c has invoked, in order.
Ops(c) ==
    LET evs == SelectSeq(log, LAMBDA e :
                   e.call = c /\ e.op \in {"BeginTx", "Commit", "Rollback"})
    IN [i \in 1..Len(evs) |-> evs[i].op]

\* C13, as stated: every call has performed, when it leaves, nothing (no
\* transaction started), or BeginTx then Rollback, or BeginTx then Commit.
C13_Original ==
    \A c \in DOMAIN calls :
        calls[c].pc = "done" =>
            Ops(c) \in {<<>>, <<"BeginTx", "Rollback">>, <<"BeginTx", "Commit">>}

\* C13, amended: every call has performed, when it leaves, exactly one of:
\* nothing (the runner is an open *sql.Tx, or it is rejected); BeginTx
\* alone, when BeginTx failed; BeginTx then Rollback; BeginTx then Commit.
C13_LifecycleSets ==
    \A c \in DOMAIN calls :
        calls[c].pc = "done" =>
            /\ Ops(c) \in {<<>>, <<"BeginTx">>, <<"BeginTx", "Rollback">>,
                           <<"BeginTx", "Commit">>}
            /\ Ops(c) = <<>> <=> ~HasBeginTx(calls[c].db)
            /\ Ops(c) = <<"BeginTx">> <=>
                 (Count("BeginTx", c) = 1 /\ Res("BeginTx", c) # Nil)

C13_Witness ==
    /\ \E c \in DOMAIN calls : calls[c].pc = "done" /\ Ops(c) = <<"BeginTx">>
    /\ \E c \in DOMAIN calls :
          calls[c].pc = "done" /\ Ops(c) = <<"BeginTx", "Rollback">>

\* C14: whatever fails, a call invokes BeginTx, fn, Commit and Rollback at
\* most once each.
C14_NothingRetried ==
    \A c \in DOMAIN calls :
        /\ Count("BeginTx", c) <= 1
        /\ Count("fn", c) <= 1
        /\ Count("Commit", c) <= 1
        /\ Count("Rollback", c) <= 1

C14_Witness ==
    /\ \E c \in DOMAIN calls :
          /\ calls[c].pc = "done"
          /\ Count("BeginTx", c) = 1 /\ Res("BeginTx", c) # Nil
    /\ \E c \in DOMAIN calls :
          /\ calls[c].pc = "done" /\ RollbackFailed(c)

\* The method set of the runner has Commit and Rollback.
HasCommitAndRollback(db) == db.kind \in {"*sql.Tx", "Tx"}

\* C15, as stated: on any runner that offers Commit and Rollback the call
\* invokes fn directly and returns its result, without BeginTx, Commit or
\* Rollback and without the configuration error.
C15_Original ==
    \A c \in DOMAIN calls :
        (HasCommitAndRollback(calls[c].db) /\ calls[c].pc = "done") =>
            /\ Count("fn", c) = 1
            /\ calls[c].out = calls[c].fnOut
            /\ Ops(c) = <<>>

\* C15, amended: only a runner whose dynamic type is *sql.Tx is taken as an
\* open transaction (fn invoked directly, its result returned, no BeginTx,
\* Commit or Rollback); another runner that offers Commit and Rollback but
\* no BeginTx gets the configuration error and fn is not invoked.
C15_OnlySqlTxReused ==
    \A c \in DOMAIN calls :
        /\ (calls[c].db.kind = "*sql.Tx" /\ calls[c].pc = "done") =>
              /\ Count("fn", c) = 1
              /\ calls[c].out = calls[c].fnOut
              /\ Ops(c) = <<>>
        /\ calls[c].db = CustomTx =>
              /\ Count("fn", c) = 0
              /\ Ops(c) = <<>>
              /\ calls[c].pc = "done" =>
                    calls[c].out = Returned(ErrNotTxBeginner)

C15_Witness ==
    \E c \in DOMAIN calls :
        /\ calls[c].db = CustomTx /\ calls[c].pc = "done"
        /\ calls[c].parent # 0
        /\ calls[calls[c].parent].db.kind = "*sql.Tx"
        /\ calls[calls[c].parent].pc = "done"

\* The context was cancelled while the callback of call c was running: c
\* is the only call of the run and its callback has ended.
CancelledDuringFn(c) ==
    /\ ctxDone
    /\ Len(calls) = 1
    /\ c = 1
    /\ calls[c].pc \in {"fnEnded", "done"}

\* C16: a call that began its transaction invokes Rollback only after its
\* callback returned an error or panicked, cancelled context or not; when
\* the callback returned nil the call invokes Commit and returns its result.
C16_CancelDoesNotRollBack ==
    \A c \in DOMAIN calls :
        calls[c].began =>
            /\ Count("Rollback", c) > 0 =>
                  /\ FnReturnedError(c) \/ calls[c].fnOut.how = "panic"
                  /\ Pos("fnEnd", c) < Pos("Rollback", c)
            /\ (calls[c].pc = "done" /\ calls[c].fnOut = Returned(Nil)) =>
                  /\ Ops(c) = <<"BeginTx", "Commit">>
                  /\ calls[c].out = Returned(Res("Commit", c))

C16_Witness ==
    \E c \in DOMAIN calls :
        /\ calls[c].began /\ calls[c].pc = "done"
        /\ CancelledDuringFn(c)
        /\ calls[c].fnOut = Returned(Nil)

\* C17: in a call that began its transaction, fn is invoked after BeginTx
\* returned and with the begun transaction; until the call leaves the
\* transaction is open, and when it leaves, by return or by panic, exactly
\* one Commit or Rollback has been invoked on it, after fn ended.
C17_NoTransactionLeftOpen ==
    \A c \in DOMAIN calls :
        calls[c].began =>
            LET ends == Count("Commit", c) + Count("Rollback", c)
                endPos == IF Count("Commit", c) > 0 THEN Pos("Commit", c)
                          ELSE Pos("Rollback", c)
            IN /\ Res("BeginTx", c) = Nil
               /\ Pos("BeginTx", c) < Pos("fn", c)
               /\ calls[c].handle = c
               /\ calls[c].pc # "done" => (ends = 0 /\ txs[c].state = "open")
               /\ calls[c].pc = "done" =>
                     /\ ends = 1
                     /\ Pos("fnEnd", c) < endPos
                     /\ endPos < Pos("leave", c)
                     /\ txs[c].state # "open"

C17_Witness ==
    /\ \E c \in DOMAIN calls :
          calls[c].began /\ calls[c].pc = "done" /\ calls[c].out.how = "panic"
    /\ \E c \in DOMAIN calls :
          calls[c].began /\ calls[c].pc = "done" /\ calls[c].out = Returned(Nil)

====
